---- MODULE Spec2Model ----
(***************************************************************************)
(* Model of demo.py: the start-up script (load the CSV, interpolate, pick  *)
(* ARIMA orders, fit four models) and the Dash application it serves, with *)
(* its two callbacks update_language (Rule A) and update_graphs (Rule B).  *)
(*                                                                         *)
(* Conventions.                                                            *)
(*  - Python's None is the string None below.                              *)
(*  - A table cell is <<v>> (a number) or <<>> (NaN, a missing value).     *)
(*  - An Arabic-indic digit is written by its code point, "U+0660" ..      *)
(*    "U+0669"; a string of such digits is the sequence of its glyphs.     *)
(*  - The Arabic display strings of the source are written as "ar:" plus   *)
(*    an ASCII transliteration.                                            *)
(*  - auto_arima, ARIMA.fit and ARIMAResults.forecast are library calls;   *)
(*    they are represented by deterministic integer stand-ins that keep    *)
(*    what the script relies on: the model depends on its own series only, *)
(*    and forecast(steps) for steps >= 1 has steps values.                 *)
(***************************************************************************)
EXTENDS Integers, Sequences, FiniteSets, TLC

VARIABLES
    pc,              \* position of the start-up script / server
    csv_file,        \* contents of world_bank_gdp_inflation.csv
    original_data,   \* copy of the table before interpolation
    country_data,    \* the Data Store: interpolated table
    orders,          \* gdp_order .. anni_order, per indicator
    model_fit,       \* the Model Bank: gdp_model_fit .. anni_model_fit
    order_calls,     \* number of find_best_arima calls per indicator
    fit_calls,       \* number of ARIMA(...).fit() calls per indicator
    language,        \* language-switch.value
    chart_type,      \* chart-type.value
    forecast_slider, \* forecast-slider.value
    main_title,      \* main-title.children
    layout_style,    \* layout-container.style
    slider_label,    \* slider-label.children
    chart_options,   \* chart-type.options
    figures,         \* the four Graph figures, <<>> before Rule B has run
    pending,         \* callbacks the presentation layer still has to run
    ret              \* record of the last callback invocation

vars == <<pc, csv_file, original_data, country_data, orders, model_fit,
          order_calls, fit_calls, language, chart_type, forecast_slider,
          main_title, layout_style, slider_label, chart_options, figures,
          pending, ret>>

store == <<csv_file, original_data, country_data, orders, model_fit,
           order_calls, fit_calls>>

controls == <<language, chart_type, forecast_slider>>

outputs == <<main_title, layout_style, slider_label, chart_options, figures>>

-----------------------------------------------------------------------------
(* Bounds of the model *)

NumYears == 3

MinHorizonArg == 1

MaxHorizonArg == 11

FirstYearArg == 1900

LastYearArg == 2100

-----------------------------------------------------------------------------
(* Values *)

None == "None"

NaN == <<>>

Indicators == <<"GDP", "GDP_per_capita", "Inflation", "Adjusted_Net_National_Income">>

IndicatorSet == {Indicators[i] : i \in 1..Len(Indicators)}

SliderMin == 1

SliderMax == 10

SliderDefault == 5

LanguageDefault == "AR"

LanguageOptions == {"EN", "AR"}

\* Values a caller of the callback endpoint can send as language.
LanguageArgs == LanguageOptions \cup {"FR"}

StyleTokens == {"lines+markers", "bar", "markers"}

\* Horizons a caller of the callback endpoint can send.
HorizonArgs == (0 - MinHorizonArg)..MaxHorizonArg

-----------------------------------------------------------------------------
(* The CSV file and the start-up script *)

CsvFile(first, miss) ==
    [Year |-> [i \in 1..NumYears |-> first + i - 1],
     GDP |-> [i \in 1..NumYears |-> IF i = miss THEN NaN ELSE <<100 + 10 * i>>],
     GDP_per_capita |-> [i \in 1..NumYears |-> <<50 + i * i>>],
     Inflation |-> [i \in 1..NumYears |-> IF i = miss THEN NaN ELSE <<3 - i>>],
     Adjusted_Net_National_Income |-> [i \in 1..NumYears |-> <<70 + 2 * i>>]]

CsvFiles == {CsvFile(2020, 2), CsvFile(2090, NumYears)}

Column(table, ind) ==
    CASE ind = "GDP" -> table.GDP
      [] ind = "GDP_per_capita" -> table.GDP_per_capita
      [] ind = "Inflation" -> table.Inflation
      [] ind = "Adjusted_Net_National_Income" -> table.Adjusted_Net_National_Income

SetMax(S) == CHOOSE m \in S : \A x \in S : x <= m

SetMin(S) == CHOOSE m \in S : \A x \in S : m <= x

\* DataFrame.interpolate(method='linear', limit_direction='forward') on one
\* column: a NaN between two values is filled on the straight line between
\* them (rows equally spaced), a NaN after the last value repeats it, a NaN
\* before the first value stays NaN.  The division is exact on CsvFiles.
interpolate(col) ==
    [i \in 1..Len(col) |->
        IF col[i] # NaN THEN col[i]
        ELSE LET before == {j \in 1..(i - 1) : col[j] # NaN}
                 after == {j \in (i + 1)..Len(col) : col[j] # NaN}
             IN  IF before = {} THEN NaN
                 ELSE LET p == SetMax(before)
                      IN  IF after = {} THEN col[p]
                          ELSE LET n == SetMin(after)
                               IN  <<col[p][1] +
                                     ((col[n][1] - col[p][1]) * (i - p)) \div (n - p)>>]

read_table(file) ==
    [Year |-> file.Year,
     GDP |-> file.GDP,
     GDP_per_capita |-> file.GDP_per_capita,
     Inflation |-> file.Inflation,
     Adjusted_Net_National_Income |-> file.Adjusted_Net_National_Income]

interpolate_table(table) ==
    [Year |-> table.Year,
     GDP |-> interpolate(table.GDP),
     GDP_per_capita |-> interpolate(table.GDP_per_capita),
     Inflation |-> interpolate(table.Inflation),
     Adjusted_Net_National_Income |-> interpolate(table.Adjusted_Net_National_Income)]

\* Stand-in for auto_arima(series).order: (0,2,0) for a series on a straight
\* line, (0,1,0) otherwise.
find_best_arima(series) ==
    IF \A i \in 2..(Len(series) - 1) :
          series[i + 1][1] - series[i][1] = series[i][1] - series[i - 1][1]
    THEN <<0, 2, 0>>
    ELSE <<0, 1, 0>>

\* Stand-in for ARIMA(series, order=order).fit().
ARIMA_fit(series, order) == [endog |-> series, order |-> order]

\* Stand-in for ARIMAResults.forecast(steps) with steps >= 1: the forecast of
\* ARIMA(0,1,0) repeats the last value, that of ARIMA(0,2,0) continues the
\* last difference.  For steps < 1 the sequence is empty.
forecast(fit, steps) ==
    LET n == Len(fit.endog)
        last == fit.endog[n][1]
        slope == IF fit.order[2] = 2 THEN last - fit.endog[n - 1][1] ELSE 0
    IN  [k \in 1..steps |-> last + k * slope]

NoTable == [Year |-> <<>>, GDP |-> <<>>, GDP_per_capita |-> <<>>,
            Inflation |-> <<>>, Adjusted_Net_National_Income |-> <<>>]

NoOrder == <<>>

NoModel == [endog |-> <<>>, order |-> <<>>]

NoStyle == [direction |-> None, backgroundColor |-> None]

NoCall == [op |-> None, args |-> <<>>, outcome |-> None, value |-> <<>>]

Init ==
    /\ pc = "load"
    /\ csv_file \in CsvFiles
    /\ original_data = NoTable
    /\ country_data = NoTable
    /\ orders = [ind \in IndicatorSet |-> NoOrder]
    /\ model_fit = [ind \in IndicatorSet |-> NoModel]
    /\ order_calls = [ind \in IndicatorSet |-> 0]
    /\ fit_calls = [ind \in IndicatorSet |-> 0]
    /\ language = LanguageDefault
    /\ chart_type = None
    /\ forecast_slider = SliderDefault
    /\ main_title = None
    /\ layout_style = NoStyle
    /\ slider_label = None
    /\ chart_options = <<>>
    /\ figures = <<>>
    /\ pending = {}
    /\ ret = NoCall

\* Lines 10-19: read the CSV, keep the five columns, copy, interpolate.
LoadData ==
    /\ pc = "load"
    /\ original_data' = read_table(csv_file)
    /\ country_data' = interpolate_table(read_table(csv_file))
    /\ pc' = "orders"
    /\ UNCHANGED <<csv_file, orders, model_fit, order_calls, fit_calls,
                   controls, outputs, pending, ret>>

\* Lines 28-31: find_best_arima for the four indicators, in order.
FindOrders ==
    /\ pc = "orders"
    /\ \E i \in 1..Len(Indicators) :
          /\ orders[Indicators[i]] = NoOrder
          /\ \A j \in 1..(i - 1) : orders[Indicators[j]] # NoOrder
          /\ orders' = [orders EXCEPT ![Indicators[i]] =
                            find_best_arima(Column(country_data, Indicators[i]))]
          /\ order_calls' = [order_calls EXCEPT ![Indicators[i]] = @ + 1]
          /\ pc' = IF i = Len(Indicators) THEN "train" ELSE "orders"
    /\ UNCHANGED <<csv_file, original_data, country_data, model_fit, fit_calls,
                   controls, outputs, pending, ret>>

\* Lines 34-37: fit the four models, in order.
TrainModels ==
    /\ pc = "train"
    /\ \E i \in 1..Len(Indicators) :
          /\ model_fit[Indicators[i]] = NoModel
          /\ \A j \in 1..(i - 1) : model_fit[Indicators[j]] # NoModel
          /\ model_fit' = [model_fit EXCEPT ![Indicators[i]] =
                              ARIMA_fit(Column(country_data, Indicators[i]),
                                        orders[Indicators[i]])]
          /\ fit_calls' = [fit_calls EXCEPT ![Indicators[i]] = @ + 1]
          /\ pc' = IF i = Len(Indicators) THEN "run" ELSE "train"
    /\ UNCHANGED <<csv_file, original_data, country_data, orders, order_calls,
                   controls, outputs, pending, ret>>

\* Lines 171-172: app.run_server.
RunServer ==
    /\ pc = "run"
    /\ pc' = "serving"
    /\ UNCHANGED <<store, controls, outputs, pending, ret>>

Startup == LoadData \/ FindOrders \/ TrainModels \/ RunServer

-----------------------------------------------------------------------------
(* The callbacks *)

\* Mutant of str: the digits come out least significant first.
RECURSIVE str_reversed(_)
str_reversed(year) ==
    IF year < 10 THEN <<year>> ELSE <<year % 10>> \o str_reversed(year \div 10)

\* str(year) for year >= 0, as the sequence of its decimal digits.
RECURSIVE str(_)
str(year) == IF year < 10 THEN <<year>> ELSE Append(str(year \div 10), year % 10)

arabic_numerals ==
    [d \in 0..9 |->
        CASE d = 0 -> "U+0660" [] d = 1 -> "U+0661" [] d = 2 -> "U+0662"
          [] d = 3 -> "U+0663" [] d = 4 -> "U+0664" [] d = 5 -> "U+0665"
          [] d = 6 -> "U+0666" [] d = 7 -> "U+0667" [] d = 8 -> "U+0668"
          [] d = 9 -> "U+0669"]

\* Lines 40-42.
format_years_arabic(years) ==
    [n \in 1..Len(years) |->
        [k \in 1..Len(str(years[n])) |-> arabic_numerals[str(years[n])[k]]]]

\* Lines 94-116.
update_language(lang) ==
    IF lang = "EN"
    THEN <<"Economic Indicators Forecast for Oman",
           [direction |-> "ltr", backgroundColor |-> "#f9f9f9"],
           "Adjust the Forecast Period:",
           <<[label |-> "Line", value |-> "lines+markers"],
             [label |-> "Bar", value |-> "bar"],
             [label |-> "Scatter", value |-> "markers"]>> >>
    ELSE <<"ar:lawhat tawaqquat al-muashshirat al-iqtisadiyya fi Uman",
           [direction |-> "rtl", backgroundColor |-> "#f9f9f9"],
           "ar:taghyir adad sanawat al-tawaqqu:",
           <<[label |-> "ar:khatt", value |-> "lines+markers"],
             [label |-> "ar:sharit", value |-> "bar"],
             [label |-> "ar:muntashir", value |-> "markers"]>> >>

\* Lines 136-150: what the language branch of update_graphs binds.
locale(lang, years) ==
    IF lang = "AR"
    THEN [historical_years |-> format_years_arabic(country_data.Year),
          forecast_years_formatted |-> format_years_arabic(years),
          gdp_title |-> "ar:al-natij al-mahalli al-ijmali",
          gdp_pc_title |-> "ar:nasib al-fard min al-natij al-mahalli al-ijmali",
          inflation_title |-> "ar:al-tadakhkhum",
          anni_title |-> "ar:al-dakhl al-qawmi al-safi al-muaddal",
          xaxis_title |-> "ar:al-sana",
          yaxis_title |-> "ar:al-qima",
          legend_historical |-> "ar:tarikhi",
          legend_forecast |-> "ar:tawaqqu"]
    ELSE [historical_years |-> country_data.Year,
          forecast_years_formatted |-> years,
          gdp_title |-> "GDP",
          gdp_pc_title |-> "GDP per Capita",
          inflation_title |-> "Inflation",
          anni_title |-> "Adjusted Net National Income",
          xaxis_title |-> "Year",
          yaxis_title |-> "Value",
          legend_historical |-> "Historical",
          legend_forecast |-> "Forecast"]

\* Mutant of create_figure: the forecast trace is added first, and the
\* scatter mode is fixed instead of taken from chart_type.
create_figure_swapped(title, historical_data, forecast_data, y_title, env) ==
    [data |->
        IF env.chart_type = "bar"
        THEN <<[type |-> "bar", x |-> env.forecast_years_formatted,
                y |-> forecast_data, name |-> env.legend_forecast],
               [type |-> "bar", x |-> env.historical_years,
                y |-> historical_data, name |-> env.legend_historical]>>
        ELSE <<[type |-> "scatter", x |-> env.historical_years,
                y |-> historical_data, mode |-> "lines+markers",
                name |-> env.legend_historical],
               [type |-> "scatter", x |-> env.forecast_years_formatted,
                y |-> forecast_data, mode |-> "lines+markers",
                name |-> env.legend_forecast]>>,
     layout |-> [title |-> title, xaxis_title |-> env.xaxis_title,
                 yaxis_title |-> y_title]]

\* Lines 152-161.  env holds the variables of update_graphs that the nested
\* function reads: chart_type and the bindings of the language branch.
create_figure(title, historical_data, forecast_data, y_title, env) ==
    [data |->
        IF env.chart_type = "bar"
        THEN <<[type |-> "bar", x |-> env.historical_years,
                y |-> historical_data, name |-> env.legend_historical],
               [type |-> "bar", x |-> env.forecast_years_formatted,
                y |-> forecast_data, name |-> env.legend_forecast]>>
        ELSE <<[type |-> "scatter", x |-> env.historical_years,
                y |-> historical_data, mode |-> env.chart_type,
                name |-> env.legend_historical],
               [type |-> "scatter", x |-> env.forecast_years_formatted,
                y |-> forecast_data, mode |-> env.chart_type,
                name |-> env.legend_forecast]>>,
     layout |-> [title |-> title, xaxis_title |-> env.xaxis_title,
                 yaxis_title |-> y_title]]

\* Mutant of forecasts: the GDP model is asked for the GDP per capita chart.
forecasts_copied(forecast_years) ==
    [gdp_forecast |-> forecast(model_fit["GDP"], forecast_years),
     gdp_pc_forecast |-> forecast(model_fit["GDP"], forecast_years),
     inflation_forecast |-> forecast(model_fit["Inflation"], forecast_years),
     anni_forecast |->
        forecast(model_fit["Adjusted_Net_National_Income"], forecast_years)]

\* Lines 127-130: the four forecasts, each from its own model.
forecasts(forecast_years) ==
    [gdp_forecast |-> forecast(model_fit["GDP"], forecast_years),
     gdp_pc_forecast |-> forecast(model_fit["GDP_per_capita"], forecast_years),
     inflation_forecast |-> forecast(model_fit["Inflation"], forecast_years),
     anni_forecast |->
        forecast(model_fit["Adjusted_Net_National_Income"], forecast_years)]

\* Line 133.
last_year == SetMax({country_data.Year[i] : i \in 1..Len(country_data.Year)})

\* Mutant of new_forecast_years: range(forecast_years) instead of
\* range(1, forecast_years + 1).
new_forecast_years_from_zero(forecast_years) ==
    [i \in 1..forecast_years |-> last_year + (i - 1)]

\* Line 134: [last_year + i for i in range(1, forecast_years + 1)].
new_forecast_years(forecast_years) ==
    [i \in 1..forecast_years |-> last_year + i]

\* Lines 125-168, for the case in which the four forecast calls return.
update_graphs(forecast_years, lang, style) ==
    LET fc == forecasts(forecast_years)
        gdp_forecast == fc.gdp_forecast
        gdp_pc_forecast == fc.gdp_pc_forecast
        inflation_forecast == fc.inflation_forecast
        anni_forecast == fc.anni_forecast
        loc == locale(lang, new_forecast_years(forecast_years))
        env == [chart_type |-> style,
                historical_years |-> loc.historical_years,
                forecast_years_formatted |-> loc.forecast_years_formatted,
                xaxis_title |-> loc.xaxis_title,
                legend_historical |-> loc.legend_historical,
                legend_forecast |-> loc.legend_forecast]
    IN  <<create_figure(loc.gdp_title, country_data.GDP, gdp_forecast,
                        loc.gdp_title, env),
          create_figure(loc.gdp_pc_title, country_data.GDP_per_capita,
                        gdp_pc_forecast, loc.gdp_pc_title, env),
          create_figure(loc.inflation_title, country_data.Inflation,
                        inflation_forecast, loc.inflation_title, env),
          create_figure(loc.anni_title, country_data.Adjusted_Net_National_Income,
                        anni_forecast, loc.anni_title, env)>>

\* What ARIMAResults.forecast(steps) can do.  The script relies on it for
\* steps >= 1 only; for steps < 1 the library call either raises (a
\* ValueError of the library) or returns no values.
ForecastOutcomes(steps) == IF steps >= 1 THEN {"ok"} ELSE {"ok", "ValueError"}

\* One invocation of update_graphs under a given outcome of the library call.
call_update_graphs(forecast_years, lang, style, lib) ==
    [op |-> "update_graphs",
     args |-> <<forecast_years, lang, style>>,
     outcome |-> lib,
     value |-> IF lib = "ok" THEN update_graphs(forecast_years, lang, style) ELSE <<>>]

call_update_language(lang) ==
    [op |-> "update_language",
     args |-> <<lang>>,
     outcome |-> "ok",
     value |-> update_language(lang)]

-----------------------------------------------------------------------------
(* The dashboard: controls, and the callbacks Dash runs when they change *)

\* @app.callback at lines 87-93 and 118-124: the callbacks an input triggers.
Triggered(input) ==
    CASE input = "language-switch" -> {"update_language", "update_graphs"}
      [] input = "forecast-slider" -> {"update_graphs"}
      [] input = "chart-type" -> {"update_graphs"}

\* A browser opens the page: Dash runs every callback once on the initial
\* values of the layout (lines 48-85).
PageLoad ==
    /\ pc = "serving"
    /\ pc' = "page"
    /\ pending' = {"update_language", "update_graphs"}
    /\ UNCHANGED <<store, controls, outputs, ret>>

\* RadioItems language-switch, lines 50-59.
SelectLanguage(lang) ==
    /\ pc = "page"
    /\ lang \in LanguageOptions
    /\ lang # language
    /\ language' = lang
    /\ pending' = pending \cup Triggered("language-switch")
    /\ UNCHANGED <<pc, store, chart_type, forecast_slider, outputs, ret>>

\* Slider forecast-slider, lines 75-83.
MoveSlider(v) ==
    /\ pc = "page"
    /\ v \in SliderMin..SliderMax
    /\ v # forecast_slider
    /\ forecast_slider' = v
    /\ pending' = pending \cup Triggered("forecast-slider")
    /\ UNCHANGED <<pc, store, language, chart_type, outputs, ret>>

\* Dropdown chart-type, lines 60-63: the user picks one of the options that
\* Rule A has put there.
SelectChartType(style) ==
    /\ pc = "page"
    /\ \E i \in 1..Len(chart_options) : chart_options[i].value = style
    /\ style # chart_type
    /\ chart_type' = style
    /\ pending' = pending \cup Triggered("chart-type")
    /\ UNCHANGED <<pc, store, language, forecast_slider, outputs, ret>>

\* Dropdown chart-type, lines 60-63: the dropdown is clearable (clearable is
\* not set to False), so the user can remove the selection.
ClearChartType ==
    /\ pc = "page"
    /\ chart_type # None
    /\ chart_type' = None
    /\ pending' = pending \cup Triggered("chart-type")
    /\ UNCHANGED <<pc, store, language, forecast_slider, outputs, ret>>

\* Rule A runs on the current value of its input and writes its four outputs.
RunUpdateLanguage ==
    /\ pc = "page"
    /\ "update_language" \in pending
    /\ LET r == call_update_language(language)
       IN  /\ ret' = r
           /\ main_title' = r.value[1]
           /\ layout_style' = r.value[2]
           /\ slider_label' = r.value[3]
           /\ chart_options' = r.value[4]
    /\ pending' = pending \ {"update_language"}
    /\ UNCHANGED <<pc, store, controls, figures>>

\* Mutant of RunUpdateGraphs: the figures of the last run are kept when the
\* horizon and the language are those of the last run (a cache whose key
\* leaves out the chart style).
RunUpdateGraphs_cached ==
    /\ pc = "page"
    /\ "update_graphs" \in pending
    /\ \E lib \in ForecastOutcomes(forecast_slider) :
          LET r == call_update_graphs(forecast_slider, language, chart_type, lib)
          IN  /\ ret' = r
              /\ figures' =
                    IF /\ figures # <<>>
                       /\ ret.op = "update_graphs"
                       /\ ret.args[1] = forecast_slider
                       /\ ret.args[2] = language
                    THEN figures
                    ELSE r.value
    /\ pending' = pending \ {"update_graphs"}
    /\ UNCHANGED <<pc, store, controls, main_title, layout_style, slider_label,
                   chart_options>>

\* Mutant of RunUpdateGraphs: the models are fitted again on every refresh.
RunUpdateGraphs_refit ==
    /\ pc = "page"
    /\ "update_graphs" \in pending
    /\ \E lib \in ForecastOutcomes(forecast_slider) :
          LET r == call_update_graphs(forecast_slider, language, chart_type, lib)
          IN  /\ ret' = r
              /\ figures' = IF r.outcome = "ok" THEN r.value ELSE figures
    /\ model_fit' = [ind \in IndicatorSet |->
                        ARIMA_fit(Column(country_data, ind), orders[ind])]
    /\ fit_calls' = [ind \in IndicatorSet |-> fit_calls[ind] + 1]
    /\ pending' = pending \ {"update_graphs"}
    /\ UNCHANGED <<pc, csv_file, original_data, country_data, orders, order_calls,
                   controls, main_title, layout_style, slider_label, chart_options>>

\* Rule B runs on the current values of its inputs and writes the figures.
RunUpdateGraphs ==
    /\ pc = "page"
    /\ "update_graphs" \in pending
    /\ \E lib \in ForecastOutcomes(forecast_slider) :
          LET r == call_update_graphs(forecast_slider, language, chart_type, lib)
          IN  /\ ret' = r
              /\ figures' = IF r.outcome = "ok" THEN r.value ELSE figures
    /\ pending' = pending \ {"update_graphs"}
    /\ UNCHANGED <<pc, store, controls, main_title, layout_style, slider_label,
                   chart_options>>

User ==
    \/ \E lang \in LanguageOptions : SelectLanguage(lang)
    \/ \E v \in SliderMin..SliderMax : MoveSlider(v)
    \/ \E style \in StyleTokens : SelectChartType(style)
    \/ ClearChartType

Next == Startup \/ PageLoad \/ User \/ RunUpdateLanguage \/ RunUpdateGraphs

Spec == Init /\ [][Next]_vars

-----------------------------------------------------------------------------
(* The callbacks as functions: any caller, any argument values *)

CallUpdateLanguage(lang) ==
    /\ pc = "serving"
    /\ ret' = call_update_language(lang)
    /\ UNCHANGED <<pc, store, controls, outputs, pending>>

CallUpdateGraphs(forecast_years, lang, style) ==
    /\ pc = "serving"
    /\ \E lib \in ForecastOutcomes(forecast_years) :
          ret' = call_update_graphs(forecast_years, lang, style, lib)
    /\ UNCHANGED <<pc, store, controls, outputs, pending>>

CallFormatYears(year) ==
    /\ pc = "serving"
    /\ ret' = [op |-> "format_years_arabic", args |-> <<year>>, outcome |-> "ok",
               value |-> format_years_arabic(<<year>>)]
    /\ UNCHANGED <<pc, store, controls, outputs, pending>>

NextCall ==
    \/ Startup
    \/ \E lang \in LanguageArgs : CallUpdateLanguage(lang)
    \/ \E h \in HorizonArgs, lang \in LanguageArgs, style \in StyleTokens \cup {None} :
          CallUpdateGraphs(h, lang, style)
    \/ \E year \in FirstYearArg..LastYearArg : CallFormatYears(year)

SpecCall == Init /\ [][NextCall]_vars
-----------------------------------------------------------------------------
(* Reference values the properties are stated with *)

\* The last historical period and the historical periods, from the file.
LastHistoricalYear == SetMax({csv_file.Year[i] : i \in 1..Len(csv_file.Year)})

HistoricalYears == {csv_file.Year[i] : i \in 1..Len(csv_file.Year)}

GlyphDigit(g) == CHOOSE d \in 0..9 : arabic_numerals[d] = g

\* The number a sequence of Arabic-indic glyphs denotes, read left to right.
RECURSIVE GlyphsToYear(_)
GlyphsToYear(glyphs) ==
    IF glyphs = <<>> THEN 0
    ELSE 10 * GlyphsToYear(SubSeq(glyphs, 1, Len(glyphs) - 1))
         + GlyphDigit(glyphs[Len(glyphs)])

\* The year a period label of a chart denotes under the language of the call.
LabelYear(lang, label) == IF lang = "AR" THEN GlyphsToYear(label) ELSE label

IndicatorTitles(lang) ==
    IF lang = "AR"
    THEN <<"ar:al-natij al-mahalli al-ijmali",
           "ar:nasib al-fard min al-natij al-mahalli al-ijmali",
           "ar:al-tadakhkhum",
           "ar:al-dakhl al-qawmi al-safi al-muaddal">>
    ELSE <<"GDP", "GDP per Capita", "Inflation", "Adjusted Net National Income">>

XAxisTitle(lang) == IF lang = "AR" THEN "ar:al-sana" ELSE "Year"

YAxisTitle(lang) == IF lang = "AR" THEN "ar:al-qima" ELSE "Value"

LegendHistorical(lang) == IF lang = "AR" THEN "ar:tarikhi" ELSE "Historical"

LegendForecast(lang) == IF lang = "AR" THEN "ar:tawaqqu" ELSE "Forecast"

\* The last invocation was update_graphs and it returned its four figures.
GraphsReturned == ret.op = "update_graphs" /\ ret.outcome = "ok"

-----------------------------------------------------------------------------
(* Properties *)

\* C1: for every horizon h in 1..10 and every language, the period labels of
\* the forecast trace of each chart update_graphs returns denote the years
\* last historical year + 1, ..., last historical year + h, in that order:
\* exactly h labels, each one more than the one before, none a historical
\* period.
C1_ForecastPeriods ==
    (GraphsReturned /\ ret.args[1] \in SliderMin..SliderMax) =>
        \A i \in 1..Len(ret.value) :
            LET x == ret.value[i].data[2].x
                h == ret.args[1]
            IN  /\ Len(x) = h
                /\ \A k \in 1..h :
                      /\ LabelYear(ret.args[2], x[k]) = LastHistoricalYear + k
                      /\ LabelYear(ret.args[2], x[k]) \notin HistoricalYears

\* C1 witness: a call in Arabic with the largest horizon of the slider has
\* returned, on a file whose forecast years cross a change of century.
C1_Witness ==
    /\ GraphsReturned
    /\ ret.args[1] = SliderMax
    /\ ret.args[2] = "AR"
    /\ LastHistoricalYear + SliderMax >= 2100
    /\ Len(ret.value) = 4

\* C2: update_graphs called with a horizon <= 0 is rejected with
\* InvalidHorizonError; it returns no charts.
C2_NonPositiveHorizonRejected ==
    (ret.op = "update_graphs" /\ ret.args[1] <= 0) =>
        ret.outcome = "InvalidHorizonError"

\* C3: update_language and update_graphs called with a language outside
\* {EN, AR} end in InvalidSelectorError; neither returns the strings of a
\* default language.
C3_UnknownLanguageRejected ==
    /\ (ret.op = "update_language" /\ ret.args[1] \notin LanguageOptions) =>
          ret.outcome = "InvalidSelectorError"
    /\ (ret.op = "update_graphs" /\ ret.args[2] \notin LanguageOptions) =>
          ret.outcome = "InvalidSelectorError"

\* C4: for every year in 1900..2100, format_years_arabic gives one glyph per
\* decimal digit, the k-th glyph is the Arabic-indic glyph of the k-th digit
\* from the left, and reading the glyphs back as digits gives the year.
C4_ArabicRoundTrip ==
    ret.op = "format_years_arabic" =>
        LET year == ret.args[1]
            out == ret.value[1]
            digit(k) == (year \div (10 ^ (4 - k))) % 10
        IN  /\ Len(ret.value) = 1
            /\ Len(out) = 4
            /\ \A k \in 1..4 : GlyphDigit(out[k]) = digit(k)
            /\ GlyphsToYear(out) = year

\* C4 witness: the year 2024 has been formatted as the glyphs of 2, 0, 2, 4.
C4_Witness ==
    /\ ret.op = "format_years_arabic"
    /\ ret.args[1] = 2024
    /\ ret.value[1] = <<"U+0662", "U+0660", "U+0662", "U+0664">>

\* C5: every chart update_graphs returns for a language of the dashboard has
\* two traces, the historical one first and the forecast one second, named
\* by the localized legend strings; with style bar both are bar traces, with
\* any other style both are scatter traces whose mode is the style.
C5_TwoTracesByStyle ==
    (GraphsReturned /\ ret.args[2] \in LanguageOptions) =>
        \A i \in 1..Len(ret.value) :
            LET data == ret.value[i].data
                lang == ret.args[2]
                style == ret.args[3]
            IN  /\ Len(data) = 2
                /\ data[1].name = LegendHistorical(lang)
                /\ data[2].name = LegendForecast(lang)
                /\ data[1].y = Column(country_data, Indicators[i])
                /\ data[2].y = forecast(model_fit[Indicators[i]], ret.args[1])
                /\ IF style = "bar"
                   THEN data[1].type = "bar" /\ data[2].type = "bar"
                   ELSE /\ data[1].type = "scatter" /\ data[2].type = "scatter"
                        /\ data[1].mode = style /\ data[2].mode = style

\* C5 witness: a bar call and a markers call are both covered; this one is
\* a returned call with style markers in English and a positive horizon.
C5_Witness ==
    /\ GraphsReturned
    /\ ret.args[1] >= 1
    /\ ret.args[2] = "EN"
    /\ ret.args[3] = "markers"
    /\ ret.value[1].data[1].type = "scatter"

\* C6: for each indicator and each language of the dashboard, the chart's
\* title is the localized indicator title, its x-axis title is the x-axis
\* title of the language (Year) and its y-axis title is the y-axis title of
\* the language (Value).
C6_TitlesFromBundle ==
    (GraphsReturned /\ ret.args[2] \in LanguageOptions) =>
        \A i \in 1..Len(ret.value) :
            /\ ret.value[i].layout.title = IndicatorTitles(ret.args[2])[i]
            /\ ret.value[i].layout.xaxis_title = XAxisTitle(ret.args[2])
            /\ ret.value[i].layout.yaxis_title = YAxisTitle(ret.args[2])

\* C7: update_graphs returns four charts in the order GDP, GDP_per_capita,
\* Inflation, Adjusted_Net_National_Income; for every language of the
\* dashboard and every style the i-th chart has the i-th indicator's
\* localized title, that indicator's historical series and the forecast of
\* that indicator's own model.
C7_FixedIndicatorOrder ==
    (GraphsReturned /\ ret.args[2] \in LanguageOptions) =>
        /\ Len(ret.value) = 4
        /\ \A i \in 1..4 :
              /\ ret.value[i].layout.title = IndicatorTitles(ret.args[2])[i]
              /\ ret.value[i].data[1].y = Column(country_data, Indicators[i])
              /\ ret.value[i].data[2].y =
                    forecast(model_fit[Indicators[i]], ret.args[1])

\* C7 witness: a returned call with a positive horizon in which the four
\* charts carry four different forecasts.
C7_Witness ==
    /\ GraphsReturned
    /\ ret.args[1] >= 2
    /\ ret.args[2] = "AR"
    /\ \A i, j \in 1..Len(ret.value) :
          i # j => ret.value[i].data[2].y # ret.value[j].data[2].y

\* C8: the controller is stateless: once a rule has run on the current
\* input values (it is not pending), its outputs are what an evaluation on
\* the current input values alone gives, whatever the inputs were before
\* and however often the rules have run.
C8_Stateless ==
    pc = "page" =>
        /\ "update_language" \notin pending =>
              <<main_title, layout_style, slider_label, chart_options>>
                  = update_language(language)
        /\ "update_graphs" \notin pending =>
              figures = update_graphs(forecast_slider, language, chart_type)

\* C8 witness: both rules have run, the inputs all differ from their initial
\* values, and nothing is pending.
C8_Witness ==
    /\ pc = "page"
    /\ pending = {}
    /\ language # LanguageDefault
    /\ forecast_slider # SliderDefault
    /\ chart_type = "bar"
    /\ figures # <<>>

\* C9: each model is fitted exactly once, before the server serves anything,
\* and never again: while the application serves, every indicator has had
\* one order search and one fit, and no step (so no run of Rule A or Rule B)
\* changes the file, the Data Store, the orders, the Model Bank or the
\* number of fits.
C9_FitOnceThenReadOnly ==
    [][/\ pc' \in {"run", "serving", "page"} =>
            \A ind \in IndicatorSet :
                /\ order_calls'[ind] = 1
                /\ fit_calls'[ind] = 1
                /\ model_fit'[ind] # NoModel
       /\ pc \in {"run", "serving", "page"} => UNCHANGED store]_vars

\* C9 witness: Rule B has run on a served page, with every model fitted once.
C9_Witness ==
    /\ pc = "page"
    /\ ret.op = "update_graphs"
    /\ figures # <<>>
    /\ \A ind \in IndicatorSet : fit_calls[ind] = 1

\* C10: in the dashboard, whenever Rule B is evaluated its style input is
\* one of lines+markers, bar, markers.
C10_StyleAlwaysKnown ==
    ret.op = "update_graphs" => ret.args[3] \in StyleTokens
====
